---- MODULE Spec2Model ----
(***************************************************************************)
(* Online poll system (Django / DRF): the vote-casting path, the results   *)
(* read path with its cache, the page cache of the list and detail views   *)
(* and the per-identity rate limiter, as executed by parallel workers.     *)
(*                                                                         *)
(* Every handler is cut into steps at its accesses to shared state (the    *)
(* database, the cache backend, the clock); the steps of different workers *)
(* interleave freely.                                                      *)
(***************************************************************************)
EXTENDS Integers, Sequences, FiniteSets, TLC

\* ------------------------------------------------------------------ bounds
\* Requests followed in one run: vote requests and read requests. Each is
\* served by a worker of its own, so up to that many workers run in parallel.
MaxVoters == 2
MaxReaders == 2
\* Poll creation requests followed in one run.
MaxCreates == 2
\* The clock advances in steps of TickSeconds, at most MaxTicks times.
MaxTicks == 2
TickSeconds == 30
\* The per-window request budget of every rate-limited operation. The source
\* gives 100/h, 10/h, 60/h, 20/h, 100/h (polls/views.py); the limiter only
\* compares a counter with the budget, so the budgets are scaled down.
Budget == 1

\* ------------------------------------------------------- program constants
\* cache.set(cache_key, data, 60)
ResultsTTL == 60
\* cache_page(60 * 5), cache_page(60 * 2)
ListTTL == 300
DetailTTL == 120

\* -------------------------------------------------------------- identities
Users == {"A", "B"}
\* Users with is_staff, whom IsAdminUser lets through.
Staff == {"root"}
Origins == {"ip1", "ip2"}
Voters == 1..MaxVoters
Readers == (MaxVoters + 1)..(MaxVoters + MaxReaders)
Creators == (MaxVoters + MaxReaders + 1)..(MaxVoters + MaxReaders + MaxCreates)
Workers == Voters \cup Readers \cup Creators

\* Rows the store holds from the start: poll 1 ("Color": Red = option 1,
\* Blue = option 2) without expiry, poll 2 (options 3 and 4) with an expiry.
PollIds == {1, 2}
OptionIds == {1, 2, 3, 4}

\* The options vote requests name: both options of poll 1 and one of poll 2.
VoteOptions == {1, 2, 3}

\* Option.poll: the poll an option row belongs to.
OptionPoll(o) == IF o \in {1, 2} THEN 1 ELSE 2

\* poll.options.all(), Option.Meta.ordering = ['id'].
PollOptions(p) == IF p = 1 THEN <<1, 2>> ELSE <<3, 4>>

VARIABLES
    now,      \* timezone.now() / time.time(), in seconds
    polls,    \* Poll rows: [PollIds -> [is_active, expires_at]]
    created,  \* Poll rows made through POST /api/polls/, with their options
    votes,    \* Vote rows: a set of [seq, user, poll, option]
    cache,    \* the 'default' cache backend: [CacheKeys -> entry]
    rl,       \* django-ratelimit counters of the current window, per key
    served,   \* history: requests begun per (operation, identity) this window
    wk        \* the requests, each with its worker: [Workers -> record]

vars == <<now, polls, created, votes, cache, rl, served, wk>>

\* ------------------------------------------------------------------ store
\* expires_at is <<>> for None and <<t>> for a timestamp.
NoExpiry == <<>>

\* Poll.is_expired
is_expired(p) ==
    IF polls[p].expires_at # NoExpiry
    THEN now > polls[p].expires_at[1]
    ELSE FALSE

\* Poll.total_votes
total_votes(p) == Cardinality({v \in votes : v.poll = p})

\* Option.vote_count
vote_count(o) == Cardinality({v \in votes : v.option = o})

\* OptionSerializer(many=True) over poll.options: the vote_count of each
\* option of the poll, in option order.
OptionCounts(p) == [i \in 1..Len(PollOptions(p)) |-> vote_count(PollOptions(p)[i])]

\* PollSerializer(poll).data: the fields that depend on the state.
PollData(p) ==
    [id |-> p, is_active |-> polls[p].is_active, is_expired |-> is_expired(p),
     total_votes |-> total_votes(p), options |-> OptionCounts(p)]

\* Poll ids by descending created_at: poll 2 is the younger one.
ByCreatedDesc == <<2, 1>>

\* PollListCreateView.get_queryset: the active polls, youngest first.
IsActivePoll(p) == polls[p].is_active
ListQueryset == SelectSeq(ByCreatedDesc, IsActivePoll)

\* PollSerializer(poll).data of the i-th poll made through the API. Its id
\* follows those of the polls there from the start; it has no votes.
CreatedData(i) ==
    [id |-> Len(ByCreatedDesc) + i,
     is_active |-> created[i].is_active,
     is_expired |-> IF created[i].expires_at # NoExpiry
                    THEN now > created[i].expires_at[1] ELSE FALSE,
     total_votes |-> 0,
     options |-> [j \in 1..Len(created[i].options) |-> 0]]

\* The list response: the queryset serialized, the polls made through the
\* API (the youngest ones) first.
IsActiveData(d) == d.is_active
ListPage ==
    SelectSeq([i \in 1..Len(created) |-> CreatedData(Len(created) + 1 - i)], IsActiveData)
        \o [i \in 1..Len(ListQueryset) |-> PollData(ListQueryset[i])]

\* Vote.objects.filter(user=user, poll=poll).exists()
VoteExists(u, p) == \E v \in votes : v.user = u /\ v.poll = p

\* A schema without the unique constraint: every insert is accepted.
UniqueTogether_Missing(u, p) == TRUE

\* Vote.Meta.unique_together = ['user', 'poll']: the constraint the
\* database checks on every insert.
UniqueTogether(u, p) == ~ \E v \in votes : v.user = u /\ v.poll = p

\* The row an insert adds. The primary key is kept only as far as it tells
\* rows of the same voter on the same poll apart (seq = 1 for the first).
NewVote(u, p, o) ==
    [seq |-> Cardinality({v \in votes : v.user = u /\ v.poll = p}) + 1,
     user |-> u, poll |-> p, option |-> o]

\* ------------------------------------------------------------------ cache
\* An integer poll id as an f-string prints it (the <int:poll_id> of a path).
Str(p) == IF p = 1 THEN "1" ELSE "2"

\* The spellings of a poll id a request body may carry in its 'poll' field.
\* A JSON number 1 and the strings "1" and "01" are different values that
\* name the same row.
PollTexts == {"1", "2", "01"}

\* PrimaryKeyRelatedField.to_internal_value: queryset.get(pk=data), where
\* the integer field turns the value into a number with int().
ParsePk(t) == IF t \in {"1", "01"} THEN 1 ELSE 2

\* cache_key = f'poll_results_{poll_id}' in PollResultView.get, where
\* poll_id is the integer of the path.
ResultsKey(p) == <<"poll_results", Str(p)>>

\* f'poll_results_{poll_id}' in VoteCreateView.post, where poll_id is
\* request.data.get('poll'), the value as the body spells it.
BodyResultsKey(t) == <<"poll_results", t>>

ListKey == <<"page_list", "">>
DetailKey(p) == <<"page_detail", Str(p)>>
CacheKeys == {ResultsKey(p) : p \in PollIds} \cup {ListKey} \cup {DetailKey(p) : p \in PollIds}

NoBody == [total |-> 0, results |-> <<>>]
Absent == [present |-> FALSE, at |-> 0, exp |-> 0, val |-> NoBody]

\* A cache that never finds anything.
CacheHit_Never(k) == FALSE

\* A cache whose entries never time out.
CacheHit_NoExpiry(k) == cache[k].present

\* cache.get(key): a stored entry is returned until its timeout has passed.
CacheHit(k) == cache[k].present /\ now < cache[k].exp

\* cache.set(key, value, timeout)
CacheSet(k, v, ttl) ==
    [cache EXCEPT ![k] = [present |-> TRUE, at |-> now, exp |-> now + ttl, val |-> v]]

\* cache.delete(key): nothing happens when the key holds no entry.
CacheDelete(k) == IF k \in CacheKeys THEN [cache EXCEPT ![k] = Absent] ELSE cache

\* ----------------------------------------------------------- rate limiter
Groups == {"vote", "results", "list", "detail", "create"}
Idents == Users \cup Origins \cup Staff
RateKeys == Groups \X Idents

\* rate='20/h', '100/h', '60/h', '100/h' of the ratelimit decorators.
Limit(g) == Budget

\* ratelimit(key=..., rate=..., block=True): the counter of the key is
\* incremented atomically (cache.incr) and the request is limited when the
\* new count exceeds the budget.
RateIncr(k) == [rl EXCEPT ![k] = @ + 1]
IsRatelimited(k) == rl[k] + 1 > Limit(k[1])

\* The model follows at most Budget + 1 requests per key and window.
MayBegin(k) == served[k] <= Budget
Serve(k) == [served EXCEPT ![k] = @ + 1]

\* -------------------------------------------------------------- responses
Resp(status, exc, msg) ==
    [status |-> status, exc |-> exc, msg |-> msg, total |-> 0, results |-> <<>>,
     page |-> <<>>]

\* Response(data, status=status.HTTP_200_OK) of the results view.
ResultsResp(body) ==
    [Resp(200, "none", "none") EXCEPT !.total = body.total, !.results = body.results]

\* The rendered 200 response of the list and detail views.
PageResp(page) == [Resp(200, "none", "none") EXCEPT !.page = page]
NoResp == Resp(0, "none", "none")

\* polls.views.rate_limited_error, the view RATELIMIT_VIEW names.
rate_limited_error == Resp(429, "Ratelimited", "Rate limit exceeded")

\* 'django_ratelimit.middleware.RatelimitMiddleware' in settings.MIDDLEWARE
RatelimitMiddlewareInstalled == FALSE

\* rest_framework's APIView.handle_exception, as the views inherit it: an
\* exception raised inside a handler (the decorated get/post included) is
\* turned into a response by DRF before any middleware sees it.
\* Ratelimited subclasses django's PermissionDenied.
HandleException(exc, msg) ==
    CASE exc = "Ratelimited"      -> Resp(403, exc, "permission_denied")
      [] exc = "NotAuthenticated" -> Resp(401, exc, "not_authenticated")
      [] exc = "PermissionDenied" -> Resp(403, exc, "permission_denied")
      [] exc = "ValidationError"  -> Resp(400, exc, msg)
      [] OTHER                    -> Resp(500, exc, msg)

\* The ratelimit decorators sit on the get/post methods of DRF views, so the
\* Ratelimited exception (block=True) is raised inside APIView.dispatch.
\* The RATELIMIT_VIEW is called by the ratelimit middleware alone, for an
\* exception that leaves the view.
RaisedInsideApiView == TRUE
RatelimitedResponse ==
    IF RaisedInsideApiView THEN HandleException("Ratelimited", "none")
    ELSE IF RatelimitMiddlewareInstalled THEN rate_limited_error
    ELSE Resp(403, "Ratelimited", "forbidden")

\* ---------------------------------------------------------------- workers
Idle ==
    [pc |-> "idle", op |-> "none", ident |-> "none", poll |-> 0, option |-> 0,
     path |-> 0, body |-> "", todo |-> <<>>, row |-> {}, counts |-> <<>>, total |-> 0, page |-> <<>>,
     seen |-> {}, resp |-> NoResp]

\* Requests arrive in the order of their numbers (within vote requests and
\* within read requests); which worker serves which is immaterial.
Arrives(w, S) ==
    /\ w \in S
    /\ wk[w].pc = "idle"
    /\ \A x \in S : x < w => wk[x].pc # "idle"

\* The response is returned to the caller and the request is over: of the
\* request only the operation and its response are kept.
Done(w, r) == [wk EXCEPT ![w] = [Idle EXCEPT !.pc = "done", !.op = wk[w].op, !.resp = r]]

Init ==
    /\ now = 0
    /\ polls = [p \in PollIds |->
                  [is_active |-> TRUE,
                   expires_at |-> IF p = 1 THEN NoExpiry ELSE <<TickSeconds>>]]
    /\ created = <<>>
    /\ votes = {}
    /\ cache = [k \in CacheKeys |-> Absent]
    /\ rl = [k \in RateKeys |-> 0]
    /\ served = [k \in RateKeys |-> 0]
    /\ wk = [w \in Workers |-> Idle]

\* ------------------------------------------------- POST /polls/<id>/vote/
\* validate without its "option belongs to the poll" check.
VoteValidateError_NoOptionCheck(u, p, o) ==
    IF ~ polls[p].is_active THEN "inactive"
    ELSE IF is_expired(p) THEN "expired"
    ELSE IF VoteExists(u, p) THEN "already_voted"
    ELSE "none"

\* validate without its "user has not already voted" check.
VoteValidateError_NoExistsCheck(u, p, o) ==
    IF ~ polls[p].is_active THEN "inactive"
    ELSE IF is_expired(p) THEN "expired"
    ELSE IF OptionPoll(o) # p THEN "foreign_option"
    ELSE "none"

\* VoteSerializer.validate: the checks in the order of the source.
VoteValidateError(u, p, o) ==
    IF ~ polls[p].is_active THEN "inactive"
    ELSE IF is_expired(p) THEN "expired"
    ELSE IF VoteExists(u, p) THEN "already_voted"
    ELSE IF OptionPoll(o) # p THEN "foreign_option"
    ELSE "none"

\* VoteCreateView.post up to serializer.is_valid(raise_exception=True): the
\* ratelimit decorator (key='user', rate='20/h'), then the serializer's
\* validation. The limiter touches only its counter and the validation only
\* reads the database, so the two are taken as one step. The request is
\* POST /api/polls/<path>/vote/ with the body {poll: t, option: o}: the view
\* never reads the poll_id of the path, the poll is the one the body names.
VotePost(w, u, path, t, o) ==
    /\ Arrives(w, Voters)
    /\ MayBegin(<<"vote", u>>)
    /\ served' = Serve(<<"vote", u>>)
    /\ rl' = RateIncr(<<"vote", u>>)
    /\ wk' = [wk EXCEPT ![w] =
                IF IsRatelimited(<<"vote", u>>)
                THEN [Idle EXCEPT !.pc = "done", !.op = "vote",
                                  !.resp = RatelimitedResponse]
                ELSE IF VoteValidateError(u, ParsePk(t), o) # "none"
                THEN [Idle EXCEPT !.pc = "done", !.op = "vote",
                                  !.resp = HandleException("ValidationError",
                                                           VoteValidateError(u, ParsePk(t), o))]
                ELSE [Idle EXCEPT !.pc = "create", !.op = "vote",
                                  !.ident = u, !.poll = ParsePk(t), !.option = o,
                                  !.path = path, !.body = t]]
    /\ UNCHANGED <<created, now, polls, votes, cache>>

\* The request as the route's comment asks for it: the body names the poll
\* of the path, as a number.
VoteBegin(w, u, p, o) == VotePost(w, u, p, Str(p), o)

\* permission_classes = [IsAuthenticated]: a request without credentials is
\* answered 401 in APIView.initial, before the decorated post runs.
VoteUnauthenticated(w) ==
    /\ Arrives(w, Voters)
    /\ wk' = [wk EXCEPT ![w] = [Idle EXCEPT !.pc = "done", !.op = "vote",
                !.resp = HandleException("NotAuthenticated", "none")]]
    /\ UNCHANGED <<created, now, polls, votes, cache, rl, served>>

\* VoteSerializer.create: Vote.objects.create(user=user, **validated_data).
\* The insert fails with IntegrityError when the unique constraint is hit;
\* nothing in the view catches it. The request notes (in 'seen') whether the
\* results entry of its poll was in the cache when its row was committed.
VoteCreate(w) ==
    /\ wk[w].pc = "create"
    /\ IF UniqueTogether(wk[w].ident, wk[w].poll)
       THEN /\ votes' = votes \cup {NewVote(wk[w].ident, wk[w].poll, wk[w].option)}
            /\ wk' = [wk EXCEPT ![w].pc = "invalidate",
                                ![w].row = {NewVote(wk[w].ident, wk[w].poll, wk[w].option)},
                                ![w].seen = {k \in {ResultsKey(wk[w].poll)} : cache[k].present}]
       ELSE /\ votes' = votes
            /\ wk' = Done(w, HandleException("IntegrityError", "none"))
    /\ UNCHANGED <<created, now, polls, cache, rl, served>>

\* VoteCreateView.post after super().post(): on 201,
\* cache.delete(f'poll_results_{poll_id}') with the body's poll id.
VoteInvalidate(w) ==
    /\ wk[w].pc = "invalidate"
    /\ cache' = CacheDelete(BodyResultsKey(wk[w].body))
    /\ wk' = Done(w, Resp(201, "none", "none"))
    /\ UNCHANGED <<created, now, polls, votes, rl, served>>

\* The votes whose 201 has been returned: every row but those of the vote
\* requests still between their insert and their cache.delete.
Acked == votes \ UNION {wk[w].row : w \in {x \in Voters : wk[x].pc = "invalidate"}}

\* ---------------------------------------------- GET /polls/<id>/results/
\* PollResultView.get up to the poll's load: the ratelimit decorator
\* (key='ip', rate='100/h'), cache.get(cache_key), and on a miss
\* Poll.objects.prefetch_related('options').get(id=poll_id).
ResultsBegin(w, ip, p) ==
    /\ Arrives(w, Readers)
    /\ MayBegin(<<"results", ip>>)
    /\ served' = Serve(<<"results", ip>>)
    /\ rl' = RateIncr(<<"results", ip>>)
    /\ LET r == [Idle EXCEPT !.op = "results", !.poll = p,
                              !.seen = {v \in Acked : v.poll = p}]
       IN  wk' = [wk EXCEPT ![w] =
                IF IsRatelimited(<<"results", ip>>)
                THEN [r EXCEPT !.pc = "done", !.resp = RatelimitedResponse]
                ELSE IF CacheHit(ResultsKey(p))
                THEN [r EXCEPT !.pc = "done",
                               !.resp = ResultsResp(cache[ResultsKey(p)].val)]
                ELSE [r EXCEPT !.pc = "count"]]
    /\ UNCHANGED <<created, now, polls, votes, cache>>

\* {"option": option.text, "votes": option.vote_count()} for the next
\* option of the poll: one COUNT query per option.
ResultsCount(w) ==
    /\ wk[w].pc = "count"
    /\ LET o == PollOptions(wk[w].poll)[Len(wk[w].counts) + 1]
           c == Append(wk[w].counts, vote_count(o))
       IN  wk' = [wk EXCEPT ![w].counts = c,
                            ![w].pc = IF Len(c) = Len(PollOptions(wk[w].poll))
                                      THEN "total" ELSE "count"]
    /\ UNCHANGED <<created, now, polls, votes, cache, rl, served>>

\* "total_votes": poll.total_votes(): one more COUNT query.
ResultsTotal(w) ==
    /\ wk[w].pc = "total"
    /\ wk' = [wk EXCEPT ![w].total = total_votes(wk[w].poll), ![w].pc = "set"]
    /\ UNCHANGED <<created, now, polls, votes, cache, rl, served>>

\* cache.set(cache_key, data, 60) and the 200 response.
ResultsSet(w) ==
    /\ wk[w].pc = "set"
    /\ LET data == [total |-> wk[w].total, results |-> wk[w].counts]
       IN  /\ cache' = CacheSet(ResultsKey(wk[w].poll), data, ResultsTTL)
           /\ wk' = [wk EXCEPT ![w] = [Idle EXCEPT !.pc = "done", !.op = "results",
                        !.poll = wk[w].poll, !.seen = wk[w].seen,
                        !.resp = ResultsResp(data)]]
    /\ UNCHANGED <<created, now, polls, votes, rl, served>>

\* ------------------------------------------------------------ page reads
\* GET /api/polls/<id>/, PollDetailView.get under cache_page(60 * 2)
\* outside ratelimit(key='ip', rate='60/h'): the page cache is looked up
\* first and a hit is returned without entering the limiter or the view; on
\* a miss the limiter counts the request and either raises or lets the view
\* run.
DetailBegin(w, ip, p) ==
    /\ Arrives(w, Readers)
    /\ MayBegin(<<"detail", ip>>)
    /\ served' = Serve(<<"detail", ip>>)
    /\ IF CacheHit(DetailKey(p))
       THEN /\ rl' = rl
            /\ wk' = [wk EXCEPT ![w] = [Idle EXCEPT !.pc = "done", !.op = "detail",
                         !.resp = PageResp(cache[DetailKey(p)].val)]]
       ELSE /\ rl' = RateIncr(<<"detail", ip>>)
            /\ wk' = [wk EXCEPT ![w] =
                   IF IsRatelimited(<<"detail", ip>>)
                   THEN [Idle EXCEPT !.pc = "done", !.op = "detail",
                           !.resp = RatelimitedResponse]
                   ELSE [Idle EXCEPT !.pc = "render", !.op = "detail", !.poll = p]]
    /\ UNCHANGED <<created, now, polls, votes, cache>>

\* GET /api/polls/, PollListCreateView.get under cache_page(60 * 5) outside
\* ratelimit(key='ip', rate='100/h').
ListBegin(w, ip) ==
    /\ Arrives(w, Readers)
    /\ MayBegin(<<"list", ip>>)
    /\ served' = Serve(<<"list", ip>>)
    /\ IF CacheHit(ListKey)
       THEN /\ rl' = rl
            /\ wk' = [wk EXCEPT ![w] = [Idle EXCEPT !.pc = "done", !.op = "list",
                         !.resp = PageResp(cache[ListKey].val)]]
       ELSE /\ rl' = RateIncr(<<"list", ip>>)
            /\ wk' = [wk EXCEPT ![w] =
                   IF IsRatelimited(<<"list", ip>>)
                   THEN [Idle EXCEPT !.pc = "done", !.op = "list",
                           !.resp = RatelimitedResponse]
                   ELSE [Idle EXCEPT !.pc = "render", !.op = "list"]]
    /\ UNCHANGED <<created, now, polls, votes, cache>>

\* The view runs: the queryset is read and serialized.
PageRender(w) ==
    /\ w \in Readers
    /\ wk[w].pc = "render"
    /\ wk' = [wk EXCEPT ![w].pc = "store",
                        ![w].page =
                            IF wk[w].op = "detail" THEN <<PollData(wk[w].poll)>>
                            ELSE ListPage]
    /\ UNCHANGED <<created, now, polls, votes, cache, rl, served>>

\* cache_page stores the 200 response under the key of the URL for its
\* timeout and the response is returned.
PageStore(w) ==
    /\ w \in Readers
    /\ wk[w].pc = "store"
    /\ cache' = CacheSet(IF wk[w].op = "detail" THEN DetailKey(wk[w].poll) ELSE ListKey,
                         wk[w].page,
                         IF wk[w].op = "detail" THEN DetailTTL ELSE ListTTL)
    /\ wk' = Done(w, PageResp(wk[w].page))
    /\ UNCHANGED <<created, now, polls, votes, rl, served>>

\* ------------------------------------------------------- POST /api/polls/
\* The 'options' and 'expires_at' values of the creation requests followed.
OptionInputs ==
    {<<>>, <<"x">>, <<"x", "y">>, <<"x", "x">>, <<"x", "y", "x">>, <<"x", "y", "z">>}
ExpiryInputs == {NoExpiry, <<0>>, <<TickSeconds>>, <<2 * TickSeconds>>}

\* set(value) of a list of texts
SetOf(value) == {value[i] : i \in 1..Len(value)}

\* validate_options without its duplicate check.
validate_options_NoDuplicateCheck(value) == Len(value) >= 2

\* PollCreateSerializer.validate_options (and the ListField's min_length=2):
\* TRUE when the value passes.
validate_options(value) ==
    /\ ~ (Len(value) < 2)
    /\ ~ (Len(value) # Cardinality(SetOf(value)))

\* PollCreateSerializer.validate_expires_at: TRUE when the value passes.
validate_expires_at(value) ==
    ~ (value # NoExpiry /\ value[1] <= now)

\* The fields is_valid() reports, in the serializer's field order.
CreateErrors(opts, exp) ==
    IF ~ validate_expires_at(exp) /\ ~ validate_options(opts) THEN "expires_at+options"
    ELSE IF ~ validate_expires_at(exp) THEN "expires_at"
    ELSE IF ~ validate_options(opts) THEN "options"
    ELSE "none"

\* PollListCreateView.post for a staff user: ratelimit(key='user',
\* rate='10/h'), serializer.is_valid(raise_exception=True), and in
\* PollCreateSerializer.create the insert of the Poll row. The validation
\* reads only the request and the clock, so the three are taken as one step.
PollCreateBegin(w, u, opts, exp) ==
    /\ Arrives(w, Creators)
    /\ u \in Staff
    /\ MayBegin(<<"create", u>>)
    /\ served' = Serve(<<"create", u>>)
    /\ rl' = RateIncr(<<"create", u>>)
    /\ IF IsRatelimited(<<"create", u>>)
       THEN /\ created' = created
            /\ wk' = [wk EXCEPT ![w] = [Idle EXCEPT !.pc = "done", !.op = "create",
                         !.resp = RatelimitedResponse]]
       ELSE IF CreateErrors(opts, exp) # "none"
       THEN /\ created' = created
            /\ wk' = [wk EXCEPT ![w] = [Idle EXCEPT !.pc = "done", !.op = "create",
                         !.resp = HandleException("ValidationError",
                                                  CreateErrors(opts, exp))]]
       ELSE /\ created' = Append(created,
                             [is_active |-> TRUE, expires_at |-> exp, options |-> <<>>])
            /\ wk' = [wk EXCEPT ![w] = [Idle EXCEPT !.pc = "options", !.op = "create",
                         !.ident = u, !.poll = Len(created) + 1, !.todo = opts]]
    /\ UNCHANGED <<now, polls, votes, cache>>

\* get_permissions: IsAdminUser for POST. A user without is_staff is
\* answered 403 in APIView.initial, before the decorated post runs.
PollCreateDenied(w, u) ==
    /\ Arrives(w, Creators)
    /\ u \notin Staff
    /\ wk' = [wk EXCEPT ![w] = [Idle EXCEPT !.pc = "done", !.op = "create",
                !.resp = HandleException("PermissionDenied", "none")]]
    /\ UNCHANGED <<created, now, polls, votes, cache, rl, served>>

\* for text in options_data: Option.objects.create(poll=poll, text=text),
\* one insert per step; after the last one the 201 response is returned.
PollCreateOption(w) ==
    /\ w \in Creators
    /\ wk[w].pc = "options"
    /\ created' = [created EXCEPT ![wk[w].poll].options = Append(@, Head(wk[w].todo))]
    /\ wk' = IF Len(wk[w].todo) = 1
             THEN [wk EXCEPT ![w] = [Idle EXCEPT !.pc = "done", !.op = "create",
                      !.poll = wk[w].poll, !.resp = Resp(201, "none", "none")]]
             ELSE [wk EXCEPT ![w].todo = Tail(@)]
    /\ UNCHANGED <<now, polls, votes, cache, rl, served>>

\* ------------------------------------------------------------ environment
\* PollAdmin: the 'is_active' field of a poll is edited in the admin.
AdminSetActive(p, b) ==
    /\ polls[p].is_active # b
    /\ polls' = [polls EXCEPT ![p].is_active = b]
    /\ UNCHANGED <<created, now, votes, cache, rl, served, wk>>

\* VoteAdmin refuses to add and to change votes (has_add_permission and
\* has_change_permission return False) but leaves has_delete_permission as
\* it is: a staff user may delete a vote in the admin.
AdminDeleteVote(v) ==
    /\ v \in votes
    /\ votes' = votes \ {v}
    /\ UNCHANGED <<created, now, polls, cache, rl, served, wk>>

\* Time passes. django-ratelimit counts in fixed windows whose boundaries
\* are wall-clock times shifted by a hash of the key, so while the clock
\* advances the window of any key may end: its next request starts a new
\* counter.
Advance(K, horizon) ==
    /\ now < horizon
    /\ now' = now + TickSeconds
    /\ rl' = [k \in RateKeys |-> IF k \in K THEN 0 ELSE rl[k]]
    /\ served' = [k \in RateKeys |-> IF k \in K THEN 0 ELSE served[k]]
    /\ UNCHANGED <<created, polls, votes, cache, wk>>

Tick(K) == Advance(K, MaxTicks * TickSeconds)

\* In the read scenarios the clock runs until a results entry stored at the
\* start has been out of date for one tick.
ReadHorizon == ResultsTTL + TickSeconds
TickRead(K) == Advance(K, ReadHorizon)

\* The vote path with its environment.
NextVote ==
    \/ \E w \in Voters, u \in Users, p \in PollIds, o \in VoteOptions :
          VoteBegin(w, u, p, o)
    \/ \E w \in Voters : VoteUnauthenticated(w)
    \/ \E w \in Voters : VoteCreate(w)
    \/ \E w \in Voters : VoteInvalidate(w)
    \/ \E p \in PollIds, b \in BOOLEAN : AdminSetActive(p, b)
    \/ \E K \in SUBSET {k \in RateKeys : served[k] > 0 \/ rl[k] > 0} : Tick(K)

\* The polls whose results are read in the read scenarios.
ReadPolls == {1}

\* Votes on a poll and concurrent reads of its results.
NextResults ==
    \/ \E w \in Voters, u \in Users, p \in ReadPolls, o \in VoteOptions :
          VoteBegin(w, u, p, o)
    \/ \E w \in Voters : VoteCreate(w)
    \/ \E w \in Voters : VoteInvalidate(w)
    \/ \E w \in Readers, ip \in Origins, p \in ReadPolls : ResultsBegin(w, ip, p)
    \/ \E w \in Readers : ResultsCount(w)
    \/ \E w \in Readers : ResultsTotal(w)
    \/ \E w \in Readers : ResultsSet(w)

\* Votes on a poll and concurrent reads of the poll list and the poll page.
NextPages ==
    \/ \E w \in Voters, u \in Users, p \in ReadPolls, o \in VoteOptions :
          VoteBegin(w, u, p, o)
    \/ \E w \in Voters : VoteCreate(w)
    \/ \E w \in Voters : VoteInvalidate(w)
    \/ \E w \in Readers, ip \in Origins, p \in ReadPolls : DetailBegin(w, ip, p)
    \/ \E w \in Readers, ip \in Origins : ListBegin(w, ip)
    \/ \E w \in Readers : PageRender(w)
    \/ \E w \in Readers : PageStore(w)
    \/ \E p \in ReadPolls, b \in BOOLEAN : AdminSetActive(p, b)

\* Votes whose body and path name polls freely, and reads of the results.
NextVotePath ==
    \/ \E w \in Voters, u \in Users, path \in PollIds, t \in PollTexts, o \in {1, 3} :
          VotePost(w, u, path, t, o)
    \/ \E w \in Voters : VoteCreate(w)
    \/ \E w \in Voters : VoteInvalidate(w)
    \/ \E w \in Readers, ip \in Origins, p \in PollIds : ResultsBegin(w, ip, p)
    \/ \E w \in Readers : ResultsCount(w)
    \/ \E w \in Readers : ResultsTotal(w)
    \/ \E w \in Readers : ResultsSet(w)

\* Reads of the results of a poll over the lifetime of a cache entry, with
\* one vote in between. When the clock advances either no rate window ends
\* or all of them do.
NextTTL ==
    \/ \E w \in {1}, p \in ReadPolls : VoteBegin(w, "A", p, 1)
    \/ \E w \in Voters : VoteCreate(w)
    \/ \E w \in Voters : VoteInvalidate(w)
    \/ \E w \in Readers, ip \in Origins, p \in ReadPolls : ResultsBegin(w, ip, p)
    \/ \E w \in Readers : ResultsCount(w)
    \/ \E w \in Readers : ResultsTotal(w)
    \/ \E w \in Readers : ResultsSet(w)
    \/ \E K \in {{}, {k \in RateKeys : served[k] > 0 \/ rl[k] > 0}} : TickRead(K)

\* Reads of the poll list while polls are switched off and on and expire.
NextList ==
    \/ \E w \in Readers, ip \in Origins : ListBegin(w, ip)
    \/ \E w \in Readers : PageRender(w)
    \/ \E w \in Readers : PageStore(w)
    \/ \E p \in PollIds, b \in BOOLEAN : AdminSetActive(p, b)
    \/ \E K \in SUBSET {k \in RateKeys : served[k] > 0 \/ rl[k] > 0} : Tick(K)

\* The vote path and the admin site.
NextAdmin ==
    \/ \E w \in Voters, u \in Users, p \in PollIds, o \in VoteOptions :
          VoteBegin(w, u, p, o)
    \/ \E w \in Voters : VoteCreate(w)
    \/ \E w \in Voters : VoteInvalidate(w)
    \/ \E v \in votes : AdminDeleteVote(v)
    \/ \E p \in PollIds, b \in BOOLEAN : AdminSetActive(p, b)

\* Poll creation requests while the clock advances.
NextCreate ==
    \/ \E w \in Creators, u \in Staff, opts \in OptionInputs, exp \in ExpiryInputs :
          PollCreateBegin(w, u, opts, exp)
    \/ \E w \in Creators, u \in Users : PollCreateDenied(w, u)
    \/ \E w \in Creators : PollCreateOption(w)
    \/ \E K \in SUBSET {k \in RateKeys : served[k] > 0 \/ rl[k] > 0} : Tick(K)

\* Poll creation requests and concurrent reads of the poll list.
NextCreateRead ==
    \/ \E w \in Creators, u \in Staff, opts \in OptionInputs, exp \in ExpiryInputs :
          PollCreateBegin(w, u, opts, exp)
    \/ \E w \in Creators : PollCreateOption(w)
    \/ \E w \in Readers, ip \in Origins : ListBegin(w, ip)
    \/ \E w \in Readers : PageRender(w)
    \/ \E w \in Readers : PageStore(w)

Next ==
    \/ NextVote \/ NextResults \/ NextPages \/ NextVotePath \/ NextTTL
    \/ NextList \/ NextAdmin \/ NextCreate \/ NextCreateRead

Spec == Init /\ [][Next]_vars
SpecVote == Init /\ [][NextVote]_vars
SpecResults == Init /\ [][NextResults]_vars
SpecPages == Init /\ [][NextPages]_vars
SpecVotePath == Init /\ [][NextVotePath]_vars
SpecTTL == Init /\ [][NextTTL]_vars
SpecList == Init /\ [][NextList]_vars
SpecAdmin == Init /\ [][NextAdmin]_vars
SpecCreate == Init /\ [][NextCreate]_vars
SpecCreateRead == Init /\ [][NextCreateRead]_vars

\* ================================================================ claims
RECURSIVE SumSeq(_)
SumSeq(q) == IF q = <<>> THEN 0 ELSE q[1] + SumSeq(Tail(q))

\* A vote request that has been answered.
Answered(w) == wk[w].pc = "done"

\* Votable per the data model: active, and no expiry or now < expiry.
Votable(p) ==
    /\ polls[p].is_active
    /\ polls[p].expires_at # NoExpiry => now < polls[p].expires_at[1]

\* C1: in every reachable state the store holds at most one Vote row for
\* each (user, poll) pair.
C1_OneVotePerUserPoll ==
    \A u \in Users, p \in PollIds :
        Cardinality({v \in votes : v.user = u /\ v.poll = p}) <= 1

\* Two attempts of one voter on one poll raced and the insert of the second
\* was refused by the constraint.
C1_Witness ==
    \E w \in Voters, v \in votes :
        /\ Answered(w)
        /\ wk[w].resp.exc = "IntegrityError"
        /\ Cardinality({x \in votes : x.user = v.user /\ x.poll = v.poll}) = 1

\* C2 (as claimed): of concurrent vote attempts by one voter on one poll the
\* losers are answered AlreadyVoted; no vote attempt is answered with an
\* internal fault (status 500).
C2_NoInternalFault ==
    \A w \in Voters : Answered(w) => wk[w].resp.status # 500

C6_RejectedWithKind ==
    [][\A w \in Voters, u \in Users, p \in PollIds, o \in VoteOptions :
        (VoteBegin(w, u, p, o) /\ ~ IsRatelimited(<<"vote", u>>)) =>
            /\ ~ Votable(p) =>
                  /\ wk'[w].pc = "done"
                  /\ wk'[w].resp.status = 400
                  /\ wk'[w].resp.msg \in {"inactive", "expired"}
            /\ (Votable(p) /\ ~ VoteExists(u, p) /\ OptionPoll(o) # p) =>
                  /\ wk'[w].pc = "done"
                  /\ wk'[w].resp.status = 400
                  /\ wk'[w].resp.msg = "foreign_option"]_vars

\* C7 (as claimed): every attempt of a voter who has a committed vote on
\* poll P to vote on P again, for any option of P, is answered AlreadyVoted
\* and inserts nothing.
C7_AlwaysAlreadyVoted ==
    [][\A w \in Voters, u \in Users, p \in PollIds, o \in VoteOptions :
        (/\ VoteBegin(w, u, p, o)
         /\ ~ IsRatelimited(<<"vote", u>>)
         /\ VoteExists(u, p)
         /\ OptionPoll(o) = p) =>
            /\ wk'[w].pc = "done"
            /\ wk'[w].resp.msg = "already_voted"]_vars

\* C7 (amended): every attempt of a voter who has a committed vote on poll
\* P to vote on P again, for any option of P, is rejected and inserts
\* nothing, so the rows and all counts stay as they were; it is answered
\* AlreadyVoted when P is still active and unexpired and the request is
\* within its rate budget, with the inactive/expired error when P is not,
\* and by the limiter when the budget is used up.
C7_RejectedAlreadyVoted ==
    [][\A w \in Voters, u \in Users, p \in PollIds, o \in VoteOptions :
        (/\ wk[w].pc = "idle" /\ wk'[w].pc # "idle"
         /\ OptionPoll(o) = p
         /\ VoteBegin(w, u, p, o)
         /\ VoteExists(u, p)) =>
            /\ wk'[w].pc = "done"
            /\ votes' = votes
            /\ wk'[w].resp.msg =
                  IF IsRatelimited(<<"vote", u>>) THEN "permission_denied"
                  ELSE IF ~ polls[p].is_active THEN "inactive"
                  ELSE IF is_expired(p) THEN "expired"
                  ELSE "already_voted"]_vars

\* A voter with a committed vote tried again and was answered AlreadyVoted.
C7_Witness ==
    \E w \in Voters :
        /\ Answered(w)
        /\ wk[w].resp.msg = "already_voted"
        /\ wk[w].resp.status = 400
        /\ votes # {}

\* C9 (as claimed): a request over its rate budget is answered with status
\* 429 and the body {"error": "Rate limit exceeded"}, whatever the operation.
C9_Status429 ==
    \A w \in Workers :
        (Answered(w) /\ wk[w].resp.exc = "Ratelimited") =>
            /\ wk[w].resp.status = 429
            /\ wk[w].resp.msg = "Rate limit exceeded"

\* Requests of an identity for an operation that were let through in the
\* current window: those received less those the limiter refused.
Allowed(k) == served[k] - (IF rl[k] > Limit(k[1]) THEN rl[k] - Limit(k[1]) ELSE 0)

\* C8 (as claimed): for every identity and operation the number of requests
\* let through in a window never exceeds the budget of the operation.
C8_AllowedWithinBudget ==
    \A k \in RateKeys : Allowed(k) <= Limit(k[1])

\* C10 (as claimed): the limiter runs before any cache lookup: a request that
\* arrives when the budget of its identity is used up is refused, even when a
\* cached page exists, and changes neither rows nor cache entries.
C10_LimiterBeforeCache ==
    [][\A w \in Readers, ip \in Origins, p \in ReadPolls :
        /\ (DetailBegin(w, ip, p) /\ served[<<"detail", ip>>] >= Limit("detail")) =>
              /\ wk'[w].resp.exc = "Ratelimited"
              /\ votes' = votes /\ cache' = cache
        /\ (ListBegin(w, ip) /\ served[<<"list", ip>>] >= Limit("list")) =>
              /\ wk'[w].resp.exc = "Ratelimited"
              /\ votes' = votes /\ cache' = cache]_vars

\* C3 (as claimed): a results read that starts after a vote on its poll was
\* acknowledged returns a tally that includes the vote.
C3_ReadIncludesAckedVotes ==
    \A w \in Readers :
        (Answered(w) /\ wk[w].op = "results" /\ wk[w].resp.status = 200) =>
            /\ wk[w].resp.total >= Cardinality(wk[w].seen)
            /\ \A i \in 1..Len(wk[w].resp.results) :
                   wk[w].resp.results[i] >=
                       Cardinality({v \in wk[w].seen :
                                       v.option = PollOptions(wk[w].poll)[i]})

\* C5 (as claimed): every results snapshot, returned or cached, has
\* total_votes equal to the sum of the votes of its results list.
C5_SnapshotSum ==
    /\ \A w \in Readers :
          (Answered(w) /\ wk[w].op = "results" /\ wk[w].resp.status = 200) =>
              wk[w].resp.total = SumSeq(wk[w].resp.results)
    /\ \A p \in PollIds :
          cache[ResultsKey(p)].present =>
              cache[ResultsKey(p)].val.total = SumSeq(cache[ResultsKey(p)].val.results)

\* C11 (as claimed): on the vote write path the row is committed, then the
\* results entry of the vote's poll is removed, then the success response is
\* returned: when a vote is acknowledged, a results entry of its poll that
\* was in the cache at its commit is no longer there.
C11_InvalidatedBeforeAck ==
    [][\A w \in Voters :
        (VoteInvalidate(w) /\ ResultsKey(wk[w].poll) \in wk[w].seen) =>
            ~ cache'[ResultsKey(wk[w].poll)].present]_vars

\* C20 (as claimed): a successful POST /polls/{id}/vote commits the vote on
\* the poll {id} of the path and removes the results entry of that poll,
\* whatever poll the body names.
C20_PathPollVotedAndInvalidated ==
    [][\A w \in Voters :
        /\ VoteCreate(w) => \A v \in votes' \ votes : v.poll = wk[w].path
        /\ VoteInvalidate(w) => ~ cache'[ResultsKey(wk[w].path)].present]_vars

\* C12 (as claimed): a successful vote on poll P invalidates the cached
\* responses of the list, the detail and the results endpoint alike, so a
\* list or detail response returned to a request that starts after the vote
\* was acknowledged counts the vote.
C12_PagesCountAckedVotes ==
    [][\A w \in Readers, ip \in Origins, p \in ReadPolls :
        /\ (DetailBegin(w, ip, p) /\ wk'[w].resp.status = 200) =>
              \A i \in 1..Len(wk'[w].resp.page) :
                  wk'[w].resp.page[i].total_votes >=
                      Cardinality({v \in Acked : v.poll = wk'[w].resp.page[i].id})
        /\ (ListBegin(w, ip) /\ wk'[w].resp.status = 200) =>
              \A i \in 1..Len(wk'[w].resp.page) :
                  wk'[w].resp.page[i].total_votes >=
                      Cardinality({v \in Acked : v.poll = wk'[w].resp.page[i].id})]_vars

\* C13: a results read for poll P that looks up the cache and finds an entry
\* for P that was stored less than the TTL ago and has not been removed
\* returns exactly the stored snapshot and makes no store query: it is
\* answered in the lookup step, and rows and cache stay as they are.
C13_HitReturnsStoredSnapshot ==
    [][\A w \in Readers, ip \in Origins, p \in ReadPolls :
        (/\ wk[w].pc = "idle" /\ wk'[w].pc # "idle"
         /\ ResultsBegin(w, ip, p)
         /\ ~ IsRatelimited(<<"results", ip>>)
         /\ cache[ResultsKey(p)].present
         /\ now - cache[ResultsKey(p)].at < ResultsTTL) =>
            /\ wk'[w].pc = "done"
            /\ wk'[w].resp = ResultsResp(cache[ResultsKey(p)].val)
            /\ cache' = cache
            /\ votes' = votes]_vars

\* A read that began after a vote was acknowledged has been answered with
\* the stored snapshot, which does not count the vote.
C13_Witness ==
    \E w \in Readers :
        /\ Answered(w) /\ wk[w].op = "results" /\ wk[w].resp.status = 200
        /\ wk[w].resp.total < Cardinality(wk[w].seen)
        /\ cache[ResultsKey(wk[w].poll)].present
        /\ cache[ResultsKey(wk[w].poll)].val.total = wk[w].resp.total

\* C15: a results snapshot is served from the cache for at most its TTL: a
\* read answered from the cache gets an entry stored at most ResultsTTL
\* seconds earlier, and a read that looks up the cache when the entry is
\* older than that recomputes from the store.
C15_ServedAtMostTTL ==
    [][\A w \in Readers, ip \in Origins, p \in ReadPolls :
        (/\ wk[w].pc = "idle" /\ wk'[w].pc # "idle"
         /\ ResultsBegin(w, ip, p)
         /\ ~ IsRatelimited(<<"results", ip>>)) =>
            /\ wk'[w].pc = "done" =>
                  /\ cache[ResultsKey(p)].present
                  /\ now - cache[ResultsKey(p)].at <= ResultsTTL
            /\ (cache[ResultsKey(p)].present /\ now - cache[ResultsKey(p)].at > ResultsTTL) =>
                  wk'[w].pc = "count"]_vars

\* A read found the entry older than its TTL and is recomputing.
C15_Witness ==
    \E w \in Readers :
        /\ wk[w].pc = "count"
        /\ cache[ResultsKey(wk[w].poll)].present
        /\ now - cache[ResultsKey(wk[w].poll)].at > ResultsTTL

\* C14 (as claimed): a vote attempt is accepted only on a votable poll, one
\* that is active and has no expiry or now < expiry; an attempt at the
\* instant now = expiry is rejected.
C14_AcceptedOnlyIfVotable ==
    [][\A w \in Voters, u \in Users, p \in PollIds, o \in VoteOptions :
        (/\ wk[w].pc = "idle" /\ wk'[w].pc = "create"
         /\ VoteBegin(w, u, p, o)) => Votable(p)]_vars

\* C17 (as claimed): a list response computed from the store holds only
\* polls that are active and whose expiry has not passed, youngest first.
C17_ListOnlyOpenPolls ==
    \A w \in Readers :
        (wk[w].op = "list" /\ wk[w].pc = "store") =>
            /\ \A i \in 1..Len(wk[w].page) :
                   wk[w].page[i].is_active /\ ~ wk[w].page[i].is_expired
            /\ \A i, j \in 1..Len(wk[w].page) :
                   i < j => wk[w].page[i].id > wk[w].page[j].id

\* C18 (as claimed): votes are append-only: no step of the system removes or
\* changes a committed vote row, so the set of rows only grows.
C18_VotesOnlyGrow == [][votes \subseteq votes']_vars

HasEqualTexts(opts) == \E i, j \in 1..Len(opts) : i # j /\ opts[i] = opts[j]

\* C16: a poll creation request with fewer than 2 option texts, with two
\* equal option texts or with an expiry <= now is answered with a
\* ValidationError and inserts no Poll row and no Option row; every poll
\* whose creation is answered 201 has at least 2 options with pairwise
\* distinct texts.
C16_CreationValidated ==
    [][/\ \A w \in Creators, u \in Staff, opts \in OptionInputs, exp \in ExpiryInputs :
            (/\ wk[w].pc = "idle" /\ wk'[w].pc # "idle"
             /\ PollCreateBegin(w, u, opts, exp)
             /\ ~ IsRatelimited(<<"create", u>>)
             /\ \/ Len(opts) < 2
                \/ HasEqualTexts(opts)
                \/ exp # NoExpiry /\ exp[1] <= now) =>
                /\ wk'[w].pc = "done"
                /\ wk'[w].resp.status = 400
                /\ wk'[w].resp.exc = "ValidationError"
                /\ created' = created
       /\ \A w \in Creators :
            (wk[w].pc = "options" /\ wk'[w].pc = "done") =>
                /\ wk'[w].resp.status = 201
                /\ Len(created'[wk[w].poll].options) >= 2
                /\ ~ HasEqualTexts(created'[wk[w].poll].options)]_vars

\* One creation request was refused by the validation and another one made
\* a poll with its options.
C16_Witness ==
    /\ \E w \in Creators :
          Answered(w) /\ wk[w].resp.exc = "ValidationError" /\ wk[w].resp.msg = "options"
    /\ \E w \in Creators :
          /\ Answered(w) /\ wk[w].resp.status = 201
          /\ Len(created[wk[w].poll].options) = 3

\* The error the guard's order of steps gives a vote attempt: poll inactive
\* or expired, then option not of the poll, then voter already voted.
GuardOrderError(u, p, o) ==
    IF ~ polls[p].is_active THEN "inactive"
    ELSE IF is_expired(p) THEN "expired"
    ELSE IF OptionPoll(o) # p THEN "foreign_option"
    ELSE IF VoteExists(u, p) THEN "already_voted"
    ELSE "none"

\* C21 (as claimed): a vote attempt that violates several rules is answered
\* with the error of the first failing step in the order inactive or
\* expired, option not of the poll, already voted; a voter who has voted
\* and names an option of another poll gets the option error.
C21_FirstFailingStepReported ==
    [][\A w \in Voters, u \in Users, p \in PollIds, o \in VoteOptions :
        (/\ wk[w].pc = "idle" /\ wk'[w].pc # "idle"
         /\ VoteBegin(w, u, p, o)
         /\ ~ IsRatelimited(<<"vote", u>>)
         /\ GuardOrderError(u, p, o) # "none") =>
            /\ wk'[w].pc = "done"
            /\ wk'[w].resp.msg = GuardOrderError(u, p, o)]_vars

\* C22 (as claimed): every vote row is committed on a poll that is active
\* and unexpired at the moment of the insert: when the poll was switched
\* off or expired after the attempt's validation, no row is created.
C22_VotableAtCommit ==
    [][\A w \in Voters :
        (VoteCreate(w) /\ votes' # votes) =>
            /\ polls[wk[w].poll].is_active
            /\ ~ is_expired(wk[w].poll)]_vars

\* A page entry of a poll made through the API with fewer than 2 options.
Incomplete(page) ==
    \E i \in 1..Len(page) :
        page[i].id > Len(ByCreatedDesc) /\ Len(page[i].options) < 2

\* C23 (as claimed): no list read and no cached list response shows a poll
\* created through POST /polls with fewer than 2 options.
C23_CreationAtomicForReaders ==
    /\ \A w \in Readers : ~ Incomplete(wk[w].page) /\ ~ Incomplete(wk[w].resp.page)
    /\ cache[ListKey].present => ~ Incomplete(cache[ListKey].val)

====
